---- MODULE Spec2Model ----
(***************************************************************************)
(* The lakehouse scripts as a state machine.                               *)
(*                                                                         *)
(* Three datasets are moved, each by its own entry points:                 *)
(*   orders        ravendb_sync.py   -> landing zone -> bridge_ravendb.py  *)
(*   hdf5_catalog  ingest_hdf5.py    -> silver layer -> bridge_hdf5.py     *)
(*   file_registry inventory_files.py (simple_append, or the branch based  *)
(*                 use_write_audit_publish)                                *)
(* The datasets share no table and no object prefix, so a behaviour        *)
(* follows one of them (variable pipeline, chosen in Init); the variables  *)
(* of the other two keep their initial value.                              *)
(*                                                                         *)
(* Values.  A Python datetime is [day, ms, us]; an ISO string is           *)
(* [str |-> "iso", day, ms, us]; any other string is [str |-> "text"].     *)
(* A Spark TIMESTAMP is [ts |-> <<day, ms, us>>].  Money is in tenths      *)
(* of a cent, so that round(x, 2) has something to round.  A table or a    *)
(* dataframe is a bag of rows (row -> number of copies); a Parquet object  *)
(* is a sequence of rows.                                                  *)
(***************************************************************************)
EXTENDS Integers, Sequences, FiniteSets, TLC

VARIABLES
    pipeline,       \* the dataset this behaviour follows
    now,            \* the wall clock, in ticks of one second
    steps,          \* source changes and sync / ingest / inventory runs so far
    docs,           \* RavenDB collection Orders: document id -> document
    landing,        \* silver/ravendb_landing/orders/: partition -> rows
    orders,         \* table nessie.structured_data.orders
    files,          \* the local HDF5 files: path -> file
    bronze,         \* bronze/hdf5/: object key -> the file uploaded there
    silver,         \* silver/hdf5_metadata/: object key -> rows
    hdf5_catalog,   \* table nessie.scientific_data.hdf5_catalog
    bucket,         \* bronze/files/: path -> size of the object
    file_registry,  \* table nessie.unstructured.file_registry on main
    branch,         \* Nessie branch ingest_files: whether it exists, its
                    \* file_registry, and the main it was last level with
    ref,            \* spark.sql.catalog.nessie.ref of the Spark session
    pc,             \* the statement use_write_audit_publish is at, or "idle"
    wap,            \* the write-audit-publish state of the latest run
    run,            \* the latest write-audit-publish run
    prior,           \* how the run before that one ended
    synced,         \* the latest ravendb_sync run, while the collection is as
                    \* that run read it: the rows it fetched, the groups
                    \* group_by_date made of them, how many partitions it
                    \* wrote, and what stopped it
    call,           \* a function called on its own: its arguments and result
    racing,         \* two ravendb_sync runs at once: the rows each fetched and
                    \* grouped, the partition each is to write next, and the
                    \* run that last put each landing object
    last,           \* what the last finished entry point did
    bridged         \* a bridge run has read the landing data, and no object
                    \* was written there since

vars == <<pipeline, now, steps, docs, landing, orders, files, bronze, silver,
          hdf5_catalog, bucket, file_registry, branch, ref, pc, wap, run, prior,
          synced, call, racing, last, bridged>>

---------------------------------------------------------------------------
(* Bounds *)

MaxClock == 1       \* the clock runs from 0 to MaxClock
MaxSteps == 3       \* source changes and sync / ingest / inventory runs per behaviour
MaxRetries == 2     \* max_retries of wait_for_minio and wait_for_ravendb is 0 .. MaxRetries

---------------------------------------------------------------------------
(* Bags and small helpers *)

\* SQL NULL / Python None: in a column of plain strings, and in a column of
\* structured values (timestamps, ISO strings, numbers that may be missing)
NullStr == "<null>"

Null == [null |-> TRUE]

NoRows == [r \in {} |-> 0]

Copies(b, x) == IF x \in DOMAIN b THEN b[x] ELSE 0

RECURSIVE Sum(_, _)
Sum(f, S) ==
    IF S = {} THEN 0
    ELSE LET x == CHOOSE y \in S : TRUE IN f[x] + Sum(f, S \ {x})

BagSize(b) == Sum(b, DOMAIN b)

BagOfSeq(s) ==
    [r \in {s[i] : i \in DOMAIN s} |-> Cardinality({i \in DOMAIN s : s[i] = r})]

BagSum(a, b) == [r \in DOMAIN a \cup DOMAIN b |-> Copies(a, r) + Copies(b, r)]

RECURSIVE BagOfAll(_, _)
BagOfAll(objects, keys) ==
    IF keys = {} THEN NoRows
    ELSE LET k == CHOOSE y \in keys : TRUE
         IN BagSum(BagOfSeq(objects[k]), BagOfAll(objects, keys \ {k}))

\* dict.get(f, default)
Get(d, f, default) == IF f \in DOMAIN d THEN d[f] ELSE default

\* number of rows of table b whose column col is k
KeyCount(b, col, k) == Sum(b, {r \in DOMAIN b : r[col] = k})

KeysOf(b, col) == {r[col] : r \in DOMAIN b}

UniqueKeys(b, col) == \A k \in KeysOf(b, col) : KeyCount(b, col, k) = 1

---------------------------------------------------------------------------
(* Time *)

\* order dates fall on these days; the scripts run on the day after
OrderDays == {1, 2}

Today == Cardinality(OrderDays) + 1

\* datetime.now(): microsecond resolution, here a fixed non-zero fraction
Now(t) == [day |-> Today, ms |-> t, us |-> 1]

isoformat(dt) == [str |-> "iso", day |-> dt.day, ms |-> dt.ms, us |-> dt.us]

IsStr(v) == "str" \in DOMAIN v

\* a value of a document field that may hold anything: a number, a list, None
\* (Null) or a string
Num(x) == [num |-> x]

List(items) == [items |-> items]

IsNum(v) == "num" \in DOMAIN v

IsNone(v) == "null" \in DOMAIN v

\* not v
Falsy(v) ==
    \/ IsNone(v)
    \/ IsNum(v) /\ v.num = 0
    \/ IsStr(v) /\ v.str = ""

IsIso(v) == IsStr(v) /\ v.str = "iso"

fromisoformat(s) == [day |-> s.day, ms |-> s.ms, us |-> s.us]

\* df[col].dt.floor('ms')
FloorMs(dt) == [dt EXCEPT !.us = 0]

\* strftime("%Y-%m-%d")
DateKey(dt) == dt.day

\* only a datetime has strftime
HasStrftime(v) == "day" \in DOMAIN v

\* a Parquet timestamp(ms) column read by Spark
SparkTimestamp(dt) == [ts |-> <<dt.day, dt.ms, 0>>]

---------------------------------------------------------------------------
(* ravendb_sync.py *)

OrderIds == {"orders/1", "orders/2"}

\* the order in which the Orders collection is streamed
IdOrder == <<"orders/1", "orders/2", "orders/3">>

Statuses == {"Shipped", "Pending"}

\* The documents the source may hold.  A shipped order carries its total and
\* its address; a pending one carries neither, as seed data before shipping.
OrderDoc(d, s) ==
    IF s = "Shipped"
    THEN [CustomerId |-> "customers/1", OrderDate |-> isoformat([day |-> d, ms |-> 0, us |-> 0]),
          Status |-> s, TotalAmount |-> Num(25990),
          ShipTo |-> [City |-> "Boston", Country |-> "USA"],
          Lines |-> List(<< [Product |-> "p1", Price |-> Num(12995), Quantity |-> Num(2)] >>)]
    ELSE [CustomerId |-> "customers/1", OrderDate |-> isoformat([day |-> d, ms |-> 0, us |-> 0]),
          Status |-> s,
          Lines |-> List(<< [Product |-> "p1", Price |-> Num(12995), Quantity |-> Num(1)],
                            [Product |-> "p2", Quantity |-> Num(3)] >>)]

OrderDocs == {OrderDoc(d, s) : d \in OrderDays, s \in Statuses}

RECURSIVE LinesTotalOfPrices(_)
LinesTotalOfPrices(lines) ==
    IF lines = <<>> THEN 0
    ELSE Get(Head(lines), "Price", Num(0)).num + LinesTotalOfPrices(Tail(lines))

RECURSIVE LinesTotal(_)
LinesTotal(lines) ==
    IF lines = <<>> THEN 0
    ELSE Get(Head(lines), "Price", Num(0)).num * Get(Head(lines), "Quantity", Num(0)).num
         + LinesTotal(Tail(lines))

\* round(x, 2): x in tenths of a cent, to the nearest cent, ties to even
Round2(x) ==
    LET q == x \div 10
        r == x % 10
    IN IF r < 5 THEN 10 * q
       ELSE IF r > 5 THEN 10 * (q + 1)
       ELSE IF q % 2 = 0 THEN 10 * q ELSE 10 * (q + 1)

\* whether the total is summed from the lines: TotalAmount absent or falsy,
\* and Lines present
SumsLines(doc) == Falsy(Get(doc, "TotalAmount", Num(0))) /\ "Lines" \in DOMAIN doc

\* sum(Price * Quantity ...) raises TypeError: Lines is None, or a Price or a
\* Quantity is not a number (None * n; "s" * n is a string, which sum cannot add)
SumRaises(lines) ==
    \/ IsNone(lines)
    \/ \E i \in DOMAIN lines.items :
          \/ ~IsNum(Get(lines.items[i], "Price", Num(0)))
          \/ ~IsNum(Get(lines.items[i], "Quantity", Num(0)))

\* flatten_order raises: in the sum, in round(total_amount, 2) of a value that
\* is no number, in .get of a ShipTo that is None, in len of a Lines that is None
flatten_raises(doc) ==
    \/ SumsLines(doc) /\ SumRaises(Get(doc, "Lines", List(<<>>)))
    \/ ~SumsLines(doc) /\ ~IsNum(Get(doc, "TotalAmount", Num(0)))
    \/ IsNone(Get(doc, "ShipTo", <<>>))
    \/ IsNone(Get(doc, "Lines", List(<<>>)))

\* the row flatten_order returns, when it returns
flatten_order(doc, doc_id, t) ==
    LET given == Get(doc, "TotalAmount", Num(0))
        total_amount ==
            IF SumsLines(doc)
            THEN LinesTotal(Get(doc, "Lines", List(<<>>)).items)
            ELSE given.num
        order_date_str == Get(doc, "OrderDate", isoformat(Now(t)))
        order_date ==
            IF IsStr(order_date_str)
            THEN IF IsIso(order_date_str) THEN fromisoformat(order_date_str)
                 ELSE Now(t)
            ELSE order_date_str
    IN [OrderId |-> doc_id,
        CustomerId |-> Get(doc, "CustomerId", ""),
        OrderDate |-> order_date,
        TotalAmount |-> Round2(total_amount),
        Status |-> Get(doc, "Status", "Unknown"),
        ShipCity |-> Get(Get(doc, "ShipTo", <<>>), "City", ""),
        ShipCountry |-> Get(Get(doc, "ShipTo", <<>>), "Country", ""),
        LineCount |-> Len(Get(doc, "Lines", List(<<>>)).items),
        SyncedAt |-> Now(t)]

RECURSIVE FlattenAll(_, _, _)
FlattenAll(collection, ids, t) ==
    IF ids = <<>> THEN <<>>
    ELSE IF Head(ids) \in DOMAIN collection
         THEN <<flatten_order(collection[Head(ids)], Head(ids), t)>>
              \o FlattenAll(collection, Tail(ids), t)
         ELSE FlattenAll(collection, Tail(ids), t)

fetch_all_orders(collection, t) == FlattenAll(collection, IdOrder, t)

\* fetch_all_orders has no try: the first document flatten_order raises on
\* ends it
fetch_raises(collection) == \E id \in DOMAIN collection : flatten_raises(collection[id])

\* group_by_date raises AttributeError on an OrderDate that is no datetime
group_raises(rows) == \E i \in DOMAIN rows : ~HasStrftime(rows[i].OrderDate)

RECURSIVE GroupFromLatest(_, _)
GroupFromLatest(rows, grouped) ==
    IF rows = <<>> THEN grouped
    ELSE LET order == Head(rows)
             date_key == DateKey(order.OrderDate)
         IN GroupFromLatest(Tail(rows),
                [keys |-> IF date_key \in DOMAIN grouped.rows THEN grouped.keys
                          ELSE Append(grouped.keys, date_key),
                 rows |-> [k \in DOMAIN grouped.rows \cup {date_key} |->
                             IF k = date_key THEN <<order>> ELSE grouped.rows[k]]])

\* group_by_date: a dict keeps the order in which its keys were inserted
RECURSIVE GroupFrom(_, _)
GroupFrom(rows, grouped) ==
    IF rows = <<>> THEN grouped
    ELSE LET order == Head(rows)
             date_key == DateKey(order.OrderDate)
             opened ==
                 IF date_key \in DOMAIN grouped.rows THEN grouped
                 ELSE [keys |-> Append(grouped.keys, date_key),
                       rows |-> [k \in DOMAIN grouped.rows \cup {date_key} |->
                                   IF k = date_key THEN <<>> ELSE grouped.rows[k]]]
         IN GroupFrom(Tail(rows),
                      [opened EXCEPT !.rows[date_key] = Append(@, order)])

group_by_date(rows) == GroupFrom(rows, [keys |-> <<>>, rows |-> <<>>])

\* pd.DataFrame(orders): the columns are the keys of all the rows, and a row
\* without one of them holds NaN / NaT there
Columns(rows) == UNION {DOMAIN rows[i] : i \in DOMAIN rows}

TimestampColumns == {"OrderDate", "SyncedAt"}

Missing(c) == IF c \in TimestampColumns THEN Null ELSE NullStr

\* The rows of the object write_parquet_to_minio puts: the schema is made from
\* the columns of the frame, timestamps are floored to milliseconds, every
\* other column is written as it is.
ParquetRows(rows) ==
    [i \in DOMAIN rows |->
        [c \in Columns(rows) |->
            IF c \notin DOMAIN rows[i] THEN Missing(c)
            ELSE IF c \in TimestampColumns /\ HasStrftime(rows[i][c])
                 THEN FloorMs(rows[i][c])
                 ELSE rows[i][c]]]

write_parquet_appends(store, rows, date_partition) ==
    [k \in DOMAIN store \cup {date_partition} |->
        IF k = date_partition
        THEN Get(store, k, <<>>) \o ParquetRows(rows)
        ELSE store[k]]

write_parquet_in_place(store, rows, date_partition) ==
    LET old == Get(store, date_partition, <<>>)
        new == ParquetRows(rows)
    IN [k \in DOMAIN store \cup {date_partition} |->
          IF k = date_partition
          THEN new \o SubSeq(old, Len(new) + 1, Len(old))
          ELSE store[k]]

\* put_object replaces the object at the key
write_parquet_to_minio(store, rows, date_partition) ==
    [k \in DOMAIN store \cup {date_partition} |->
        IF k = date_partition THEN ParquetRows(rows) ELSE store[k]]

RECURSIVE WriteLoopOneObject(_, _, _)
WriteLoopOneObject(store, grouped, n) ==
    IF n = 0 THEN store
    ELSE write_parquet_to_minio(WriteLoopOneObject(store, grouped, n - 1),
                                grouped.rows[grouped.keys[n]], grouped.keys[1])

\* the write loop of main, the first n partitions written
RECURSIVE WriteLoop(_, _, _)
WriteLoop(store, grouped, n) ==
    IF n = 0 THEN store
    ELSE LET before == WriteLoop(store, grouped, n - 1)
             date_partition == grouped.keys[n]
         IN write_parquet_to_minio(before, grouped.rows[date_partition], date_partition)

---------------------------------------------------------------------------
(* MERGE INTO target USING source ON target.key = source.key                *)
(*   WHEN MATCHED THEN UPDATE ...  WHEN NOT MATCHED THEN INSERT ...         *)
(* as Spark with the Iceberg extensions runs it: a target row matched by    *)
(* more than one source row makes the statement fail and the table keeps    *)
(* its rows; every unmatched source row is inserted, each copy of it.       *)
(* (Neither OrderId nor file_path is ever null in a row the scripts make.)  *)

KeyEq(a, b) == a = b

Matching(t, source, col) == {s \in DOMAIN source : KeyEq(t[col], s[col])}

Matched(s, target, col) == \E t \in DOMAIN target : KeyEq(t[col], s[col])

\* bridge_ravendb: UPDATE SET of the eight non-key columns, INSERT of the nine
OrdersUpdate(t, s) ==
    [t EXCEPT !.CustomerId = s.CustomerId, !.OrderDate = s.OrderDate,
              !.TotalAmount = s.TotalAmount, !.Status = s.Status,
              !.ShipCity = s.ShipCity, !.ShipCountry = s.ShipCountry,
              !.LineCount = s.LineCount, !.SyncedAt = s.SyncedAt]

OrdersInsert(s) ==
    [OrderId |-> s.OrderId, CustomerId |-> s.CustomerId, OrderDate |-> s.OrderDate,
     TotalAmount |-> s.TotalAmount, Status |-> s.Status, ShipCity |-> s.ShipCity,
     ShipCountry |-> s.ShipCountry, LineCount |-> s.LineCount, SyncedAt |-> s.SyncedAt]

\* bridge_hdf5: UPDATE SET *  and  INSERT *
Hdf5Update(t, s) == s

Hdf5Insert(s) == s

\* the WHEN clauses of the MERGE on column col
Update(col, t, s) == IF col = "OrderId" THEN OrdersUpdate(t, s) ELSE Hdf5Update(t, s)

Insert(col, s) == IF col = "OrderId" THEN OrdersInsert(s) ELSE Hdf5Insert(s)

MergeInsertOnly(target, source, col) ==
    [ok |-> TRUE,
     rows |-> BagSum(target, [x \in {Insert(col, s) : s \in DOMAIN source} |->
                 Sum(source, {s \in DOMAIN source : Insert(col, s) = x})])]

MergeRows(target, source, col) ==
    LET ambiguous ==
            \E t \in DOMAIN target : Sum(source, Matching(t, source, col)) > 1
        image(t) ==
            IF Matching(t, source, col) = {} THEN t
            ELSE Update(col, t, CHOOSE s \in Matching(t, source, col) : TRUE)
        fresh == {s \in DOMAIN source : ~Matched(s, target, col)}
        result == {image(t) : t \in DOMAIN target} \cup {Insert(col, s) : s \in fresh}
    IN IF ambiguous THEN [ok |-> FALSE, rows |-> target]
       ELSE [ok |-> TRUE,
             rows |-> [x \in result |->
                 Sum(target, {t \in DOMAIN target : image(t) = x})
                 + Sum(source, {s \in fresh : Insert(col, s) = x})]]

---------------------------------------------------------------------------
(* bridge_ravendb.py *)

\* spark.read.parquet over orders/*/*.parquet: no object, no dataframe
read_landing_zone(store) ==
    IF DOMAIN store = {} THEN [ok |-> FALSE, df |-> NoRows]
    ELSE [ok |-> TRUE,
          df |-> LET rows == BagOfAll(store, DOMAIN store)
                     asSpark(r) == [r EXCEPT !.OrderDate = SparkTimestamp(@),
                                             !.SyncedAt = SparkTimestamp(@)]
                 IN [x \in {asSpark(r) : r \in DOMAIN rows} |->
                        Sum(rows, {r \in DOMAIN rows : asSpark(r) = x})]]

OrdersMergeAppends(target, df_source) ==
    MergeInsertOnly(target, df_source, "OrderId")

OrdersMerge(target, df_source) ==
    MergeRows(target, df_source, "OrderId")

\* What a run of an entry point did: its exit status, whether it issued its
\* MERGE ("none", "done", "error"), the table before it, the batch it merged,
\* and which of the three outcomes it was: "nothing to do", "success" or
\* "hard failure".
Outcome(entry, exit, merge, rows, before, source, kind) ==
    [entry |-> entry, exit |-> exit, merge |-> merge, rows |-> rows,
     before |-> before, source |-> source, kind |-> kind]

BridgeRavendbMergesAnyway(table, store) ==
    LET df_source == read_landing_zone(store)
        m == OrdersMerge(table, df_source.df)
    IN Outcome("bridge_ravendb", 0, "done", m.rows, table, df_source.df, "success")

\* main: a run that finds no landing data returns, and the script then ends
\* with status 0; an exception out of spark.sql ends it with status 1
BridgeRavendbMain(table, store) ==
    LET df_source == read_landing_zone(store)
        m == OrdersMerge(table, df_source.df)
    IN IF ~df_source.ok
       THEN Outcome("bridge_ravendb", 0, "none", table, table, NoRows, "nothing to do")
       ELSE IF m.ok
       THEN Outcome("bridge_ravendb", 0, "done", m.rows, table, df_source.df, "success")
       ELSE Outcome("bridge_ravendb", 1, "error", table, table, df_source.df, "hard failure")

---------------------------------------------------------------------------
(* ingest_hdf5.py *)
(* Of the 30 columns of a metadata row the model carries one of each kind:  *)
(* the file information (file_path, file_name, file_size_bytes), the time   *)
(* of ingestion, the serving location (tiled_uri), one field set when the   *)
(* file is opened (hdf5_driver), one set after its content is traversed     *)
(* (title; the others are set and left unset with one of the two) and       *)
(* extraction_error.                                                        *)

\* the files a scan may find, in the order rglob yields them
PathOrder == << [dir |-> "/data/run1", name |-> "scan.nxs.h5"],
                [dir |-> "/data/run2", name |-> "scan.nxs.h5"] >>

HdfPaths == {PathOrder[i] : i \in DOMAIN PathOrder}

\* a readable NeXus file, and one h5py.File cannot open
HdfFiles == { [size |-> 2048, readable |-> TRUE, title |-> "reflectivity"],
              [size |-> 512, readable |-> FALSE] }

\* ... and one that opens, but raises while it is traversed
AnyHdfFiles == HdfFiles \cup { [size |-> 1024, readable |-> TRUE] }

\* str(file_path.absolute())
AbsStr(path) == <<path.dir, path.name>>

FileUri(path) == <<"file://", path.dir, path.name>>

S3Uri(s3_key) == <<"s3://lakehouse">> \o s3_key

\* a URI column holding NULL
NullUri == <<NullStr>>

\* a || b for dictionaries: update(b)
Updated(a, b) == [f \in DOMAIN a \cup DOMAIN b |-> IF f \in DOMAIN b THEN b[f] ELSE a[f]]

ExtractSilently(file_path, file, t) ==
    LET metadata ==
            [file_path |-> AbsStr(file_path),
             file_name |-> file_path.name,
             file_size_bytes |-> file.size,
             ingestion_time |-> isoformat(Now(t)),
             tiled_uri |-> FileUri(file_path)]
    IN IF ~file.readable THEN metadata
       ELSE IF "title" \notin DOMAIN file
       THEN Updated(metadata, [hdf5_driver |-> "sec2"])
       ELSE Updated(metadata, [hdf5_driver |-> "sec2", title |-> file.title])

\* the except clause stores str(e); what the with block set before it raised
\* stays
extract_hdf5_metadata(file_path, file, t) ==
    LET metadata ==
            [file_path |-> AbsStr(file_path),
             file_name |-> file_path.name,
             file_size_bytes |-> file.size,
             ingestion_time |-> isoformat(Now(t)),
             tiled_uri |-> FileUri(file_path)]
    IN IF ~file.readable
       THEN Updated(metadata, [extraction_error |-> "Unable to open file"])
       ELSE IF "title" \notin DOMAIN file
       THEN Updated(metadata, [hdf5_driver |-> "sec2",
                               extraction_error |-> "Can't read data"])
       ELSE Updated(metadata, [hdf5_driver |-> "sec2", title |-> file.title])

\* upload_hdf5_to_bronze: the object key keeps the file's name only
BronzeKey(file_path) == <<"bronze/hdf5", file_path.name>>

schema_fields ==
    {"file_path", "file_name", "file_size_bytes", "ingestion_time", "tiled_uri",
     "hdf5_driver", "title", "extraction_error"}

\* metadata_to_dataframe: a schema field the record lacks becomes None
metadata_to_dataframe(record) ==
    [f \in DOMAIN record \cup schema_fields |->
        IF f \in DOMAIN record THEN record[f] ELSE NullStr]

RECURSIVE ProcessFrom(_, _, _, _)
ProcessFrom(paths, fs, upload_hdf5, t) ==
    IF paths = <<>> THEN <<>>
    ELSE IF Head(paths) \in DOMAIN fs
         THEN LET file_path == Head(paths)
                  metadata == extract_hdf5_metadata(file_path, fs[file_path], t)
                  s3_uri == S3Uri(BronzeKey(file_path))
                  row == IF upload_hdf5
                         THEN Updated(metadata, [s3_uri |-> s3_uri, tiled_uri |-> s3_uri])
                         ELSE metadata
              IN <<metadata_to_dataframe(row)>>
                 \o ProcessFrom(Tail(paths), fs, upload_hdf5, t)
         ELSE ProcessFrom(Tail(paths), fs, upload_hdf5, t)

\* process_files over the data directory
process_files(fs, upload_hdf5, t) == ProcessFrom(PathOrder, fs, upload_hdf5, t)

\* the uploads process_files makes with --upload-hdf5, in scan order
RECURSIVE UploadFrom(_, _, _)
UploadFrom(paths, fs, store) ==
    IF paths = <<>> THEN store
    ELSE IF Head(paths) \in DOMAIN fs
         THEN LET key == BronzeKey(Head(paths))
                  put == [k \in DOMAIN store \cup {key} |->
                            IF k = key THEN [path |-> Head(paths), file |-> fs[Head(paths)]]
                            ELSE store[k]]
              IN UploadFrom(Tail(paths), fs, put)
         ELSE UploadFrom(Tail(paths), fs, store)

\* datetime.now().strftime('%Y%m%d_%H%M%S'): one key per second
MetadataKey(t) == <<"silver/hdf5_metadata/hdf5_metadata", Today, t>>

\* upload_to_s3 replaces the object at the key
upload_to_s3(store, rows, s3_key) ==
    [k \in DOMAIN store \cup {s3_key} |-> IF k = s3_key THEN rows ELSE store[k]]

---------------------------------------------------------------------------
(* bridge_hdf5.py *)

\* spark.read.parquet over hdf5_metadata/*.parquet
read_hdf5_metadata(store) ==
    IF DOMAIN store = {} THEN [ok |-> FALSE, df |-> NoRows]
    ELSE [ok |-> TRUE, df |-> BagOfAll(store, DOMAIN store)]

\* to_timestamp(col): a string it cannot parse gives NULL
to_timestamp(s) == IF IsIso(s) THEN [ts |-> <<s.day, s.ms, s.us>>] ELSE Null

current_timestamp(t) == [ts |-> <<Today, t, 1>>]

\* The view hdf5_source: cataloged_at added, ingestion_time parsed, a column
\* the Parquet data lacks filled with NULL, the expected columns selected.
\* The casts to LONG and STRING leave the values of these columns as they are.
expected_columns == schema_fields \cup {"s3_uri", "cataloged_at"}

\* lit(None) in a column the source lacks
NullColumn(c) ==
    IF c \in {"tiled_uri", "s3_uri", "file_path"} THEN NullUri
    ELSE IF c \in {"ingestion_time", "file_size_bytes"} THEN Null
    ELSE NullStr

PreparedRowAsRead(r, t) == Updated(r, [cataloged_at |-> current_timestamp(t)])

PreparedRow(r, t) ==
    [c \in expected_columns |->
        IF c = "cataloged_at" THEN current_timestamp(t)
        ELSE IF c \notin DOMAIN r THEN NullColumn(c)
        ELSE IF c = "ingestion_time" THEN to_timestamp(r[c])
        ELSE r[c]]

Prepared(df_source, t) ==
    [x \in {PreparedRow(r, t) : r \in DOMAIN df_source} |->
        Sum(df_source, {r \in DOMAIN df_source : PreparedRow(r, t) = x})]

Hdf5MergeAppends(target, hdf5_source) ==
    MergeInsertOnly(target, hdf5_source, "file_path")

Hdf5Merge(target, hdf5_source) ==
    MergeRows(target, hdf5_source, "file_path")

\* main: no metadata in the silver layer is status 1, and so is an exception
\* out of spark.sql
BridgeHdf5Main(table, store, t) ==
    LET df_metadata == read_hdf5_metadata(store)
        hdf5_source == Prepared(df_metadata.df, t)
        m == Hdf5Merge(table, hdf5_source)
    IN IF ~df_metadata.ok \/ BagSize(df_metadata.df) = 0
       THEN Outcome("bridge_hdf5", 1, "none", table, table, NoRows, "nothing to do")
       ELSE IF m.ok
       THEN Outcome("bridge_hdf5", 0, "done", m.rows, table, hdf5_source, "success")
       ELSE Outcome("bridge_hdf5", 1, "error", table, table, hdf5_source, "hard failure")

---------------------------------------------------------------------------
(* inventory_files.py *)

\* the objects bronze/files/ may hold: directory, name before the last dot,
\* and the extension after it ("" when the name has no dot)
BronzePaths == { [dir |-> "reports", stem |-> "summary", ext |-> "pdf"],
                 [dir |-> "notes", stem |-> "README", ext |-> ""] }

ObjectSizes == {1024}

\* scan_bronze_files: one row per object; nothing under the prefix gives None.
\* The dataframe is lazy: the objects are listed by load() and
\* current_timestamp() is taken when an action (the append) evaluates it.
ScanRow(path, size, t) ==
    [file_path |-> <<"s3a://lakehouse/bronze/files", path.dir, path.stem, path.ext>>,
     file_name |-> <<path.stem, path.ext>>,
     file_extension |-> path.ext,
     size_bytes |-> size,
     ingested_at |-> current_timestamp(t)]

scan_bronze_files(objects, t) ==
    IF DOMAIN objects = {} THEN [ok |-> FALSE, df |-> NoRows]
    ELSE [ok |-> TRUE,
          df |-> [x \in {ScanRow(path, objects[path], t) : path \in DOMAIN objects} |-> 1]]

\* simple_append: writeTo(...).append() with the session on main
simple_append(table, df_files) == BagSum(table, df_files)

NoBranch == [exists |-> FALSE, rows |-> NoRows, base |-> NoRows]

\* CREATE BRANCH IF NOT EXISTS ingest_files IN nessie FROM main: an existing
\* branch is kept as it is
CreateBranchIfNotExists(b, main) ==
    IF b.exists THEN b ELSE [exists |-> TRUE, rows |-> main, base |-> main]

\* the reference an append goes to: the one the session is set to
WriteTargetMain(session_ref) == "main"

WriteTarget(session_ref) == session_ref

\* MERGE BRANCH ingest_files INTO main: refused when file_registry changed on
\* main since the branch was level with it
MergeConflict(b, main) == main # b.base

\* DROP BRANCH IF EXISTS ingest_files
DropBranchKeeps(b) == b

DropBranch(b) == NoBranch

\* An exception leaves use_write_audit_publish through no except and no
\* finally clause: the branch stays as the failed statement left it.
UnwindDrops(b) == NoBranch

Unwind(b) == b

\* The write-audit-publish state after a statement of the run has completed.
StateAfterDroppingWrite(state, statement) ==
    CASE statement = "create" -> "BRANCH_CREATED"
      [] statement = "drop" -> "MERGED"
      [] OTHER -> state

StateAfter(state, statement) ==
    CASE statement = "create" -> "BRANCH_CREATED"
      [] statement = "append" -> "WRITTEN"
      [] statement = "drop" -> "MERGED"
      [] OTHER -> state

Statements == <<"create", "switch", "append", "back", "merge", "drop">>

\* a run of inventory_files: what appended (by), file_registry on main when it
\* started, the objects load() listed, the rows appended, the statements
\* completed, how it ended, and the statement it was at
NoRun == [by |-> "none", main0 |-> NoRows, listing |-> <<>>, df |-> NoRows, done |-> <<>>,
          ended |-> "none", at |-> "idle"]

---------------------------------------------------------------------------
(* State *)

Idle == Outcome("none", 0, "none", NoRows, NoRows, NoRows, "none")

\* last, with the facts a bridge run adds: whether the landing zone was empty,
\* and whether the previous bridge run read the very same landing data
Finished(out, store, prev) ==
    [entry |-> out.entry, exit |-> out.exit, merge |-> out.merge,
     before |-> out.before, source |-> out.source, kind |-> out.kind,
     empty |-> (DOMAIN store = {}),
     repeat |-> prev]

NoGroups == [keys |-> <<>>, rows |-> <<>>]

NoSync == [orders |-> <<>>, grouped |-> NoGroups, written |-> 0, raised |-> "none"]

NoCall == [fn |-> "none"]

RaceRuns == {1, 2}

\* a sync run about to fetch
Starting == [pc |-> "fetch", orders |-> <<>>, grouped |-> NoGroups, written |-> 0]

NoRace == [runs |-> [r \in RaceRuns |-> Starting], writer |-> <<>>]

ordersvars == <<docs, landing, orders>>

wapvars == <<bucket, file_registry, branch, ref, pc, wap, run, prior>>

hdf5vars == <<files, bronze, silver, hdf5_catalog>>

\* the contents a source may have: any of the keys, each with any value
Contents(keys, values) == UNION {[ks -> values] : ks \in SUBSET keys}

\* Nothing has run yet: the object store and the tables are empty.  The source
\* of the followed dataset holds anything, the other sources nothing.
Init ==
    /\ pipeline \in {"orders", "hdf5_catalog", "file_registry"}
    /\ now = 0
    /\ steps = 0
    /\ docs \in Contents(OrderIds, OrderDocs)
    /\ pipeline # "orders" => docs = <<>>
    /\ landing = <<>>
    /\ orders = NoRows
    /\ files \in Contents(HdfPaths, HdfFiles)
    /\ pipeline # "hdf5_catalog" => files = <<>>
    /\ bucket \in Contents(BronzePaths, ObjectSizes)
    /\ pipeline # "file_registry" => bucket = <<>>
    /\ file_registry = NoRows
    /\ branch = NoBranch
    /\ ref = "main"
    /\ pc = "idle"
    /\ wap = "NO_BRANCH"
    /\ run = NoRun
    /\ prior = NoRun
    /\ bronze = <<>>
    /\ silver = <<>>
    /\ hdf5_catalog = NoRows
    /\ synced = NoSync
    /\ call = NoCall
    /\ racing = NoRace
    /\ last = Finished(Idle, <<>>, FALSE)
    /\ bridged = FALSE

\* the clock is followed while the step budget lasts
Tick ==
    /\ now < MaxClock
    /\ steps < MaxSteps
    /\ now' = now + 1
    /\ UNCHANGED <<pipeline, call, racing, synced, steps, docs, landing, orders, hdf5vars, wapvars, last, bridged>>

\* the source of record changes between runs: a document is stored or replaced
PutDoc ==
    /\ pipeline = "orders"
    /\ steps < MaxSteps
    /\ \E id \in OrderIds, doc \in OrderDocs :
          /\ Get(docs, id, <<>>) # doc
          /\ docs' = [k \in DOMAIN docs \cup {id} |-> IF k = id THEN doc ELSE docs[k]]
    /\ steps' = steps + 1
    /\ synced' = NoSync
    /\ UNCHANGED <<pipeline, call, racing, now, landing, orders, hdf5vars, wapvars, last, bridged>>

\* ... or deleted
DeleteDoc ==
    /\ pipeline = "orders"
    /\ steps < MaxSteps
    /\ \E id \in DOMAIN docs :
          docs' = [k \in DOMAIN docs \ {id} |-> docs[k]]
    /\ steps' = steps + 1
    /\ synced' = NoSync
    /\ UNCHANGED <<pipeline, call, racing, now, landing, orders, hdf5vars, wapvars, last, bridged>>

\* ravendb_sync.main.  An exception out of fetch_all_orders or group_by_date
\* ends the run before anything is written.  put_object may raise at any
\* partition: the partitions before it are written, the run ends there.  The
\* script ends with status 1 in each case.
SyncRun ==
    /\ pipeline = "orders"
    /\ steps < MaxSteps
    /\ steps' = steps + 1
    /\ IF fetch_raises(docs)
       THEN /\ landing' = landing
            /\ synced' = [orders |-> <<>>, grouped |-> NoGroups, written |-> 0,
                          raised |-> "fetch_all_orders"]
            /\ last' = Finished(Outcome("ravendb_sync", 1, "none", NoRows, NoRows, NoRows,
                                        "hard failure"), landing, bridged)
       ELSE LET fetched == fetch_all_orders(docs, now)
                grouped == group_by_date(fetched)
            IN IF fetched = <<>>
               THEN /\ landing' = landing
                    /\ synced' = [orders |-> fetched, grouped |-> NoGroups, written |-> 0,
                                  raised |-> "none"]
                    /\ last' = Finished(Outcome("ravendb_sync", 0, "none", NoRows, NoRows,
                                                NoRows, "nothing to do"), landing, bridged)
               ELSE IF group_raises(fetched)
               THEN /\ landing' = landing
                    /\ synced' = [orders |-> fetched, grouped |-> NoGroups, written |-> 0,
                                  raised |-> "group_by_date"]
                    /\ last' = Finished(Outcome("ravendb_sync", 1, "none", NoRows, NoRows,
                                                NoRows, "hard failure"), landing, bridged)
               ELSE \E written \in 0..Len(grouped.keys) :
                       /\ landing' = WriteLoop(landing, grouped, written)
                       /\ synced' = [orders |-> fetched, grouped |-> grouped,
                                     written |-> written,
                                     raised |-> IF written = Len(grouped.keys) THEN "none"
                                                ELSE "write_parquet_to_minio"]
                       /\ last' = Finished(Outcome("ravendb_sync",
                                       IF written = Len(grouped.keys) THEN 0 ELSE 1,
                                       "none", NoRows, NoRows, NoRows,
                                       IF written = Len(grouped.keys) THEN "success"
                                       ELSE "hard failure"), landing, bridged)
    /\ bridged' = (bridged /\ landing' = landing)
    /\ UNCHANGED <<pipeline, call, racing, now, docs, orders, hdf5vars, wapvars>>

BridgeRavendb ==
    /\ pipeline = "orders"
    /\ LET out == BridgeRavendbMain(orders, landing)
       IN /\ orders' = out.rows
          /\ last' = Finished(out, landing, bridged)
    /\ bridged' = TRUE
    /\ UNCHANGED <<pipeline, call, racing, synced, now, steps, docs, landing, hdf5vars, wapvars>>

\* the data directory changes between runs: a file is written or replaced
PutFile ==
    /\ pipeline = "hdf5_catalog"
    /\ steps < MaxSteps
    /\ \E path \in HdfPaths, file \in HdfFiles :
          /\ Get(files, path, <<>>) # file
          /\ files' = [k \in DOMAIN files \cup {path} |-> IF k = path THEN file ELSE files[k]]
    /\ steps' = steps + 1
    /\ UNCHANGED <<pipeline, call, racing, synced, now, ordersvars, bronze, silver, hdf5_catalog, wapvars, last, bridged>>

\* ... or removed
DeleteFile ==
    /\ pipeline = "hdf5_catalog"
    /\ steps < MaxSteps
    /\ \E path \in DOMAIN files :
          files' = [k \in DOMAIN files \ {path} |-> files[k]]
    /\ steps' = steps + 1
    /\ UNCHANGED <<pipeline, call, racing, synced, now, ordersvars, bronze, silver, hdf5_catalog, wapvars, last, bridged>>

\* ingest_hdf5.main over the data directory, with or without --upload-hdf5 and
\* --upload-metadata
IngestRun ==
    /\ pipeline = "hdf5_catalog"
    /\ steps < MaxSteps
    /\ steps' = steps + 1
    /\ \E upload_hdf5 \in BOOLEAN, upload_metadata \in BOOLEAN :
          LET df == process_files(files, upload_hdf5, now)
          IN /\ bronze' = IF upload_hdf5 THEN UploadFrom(PathOrder, files, bronze)
                          ELSE bronze
             /\ silver' = IF df # <<>> /\ upload_metadata
                          THEN upload_to_s3(silver, df, MetadataKey(now))
                          ELSE silver
             /\ last' = Finished(Outcome("ingest_hdf5", IF df = <<>> THEN 1 ELSE 0,
                                         "none", NoRows, NoRows, NoRows,
                                         IF df = <<>> THEN "nothing to do" ELSE "success"),
                                 silver, bridged)
    /\ bridged' = (bridged /\ silver' = silver)
    /\ UNCHANGED <<pipeline, call, racing, synced, now, ordersvars, files, hdf5_catalog, wapvars>>

BridgeHdf5 ==
    /\ pipeline = "hdf5_catalog"
    /\ LET out == BridgeHdf5Main(hdf5_catalog, silver, now)
       IN /\ hdf5_catalog' = out.rows
          /\ last' = Finished(out, silver, bridged)
    /\ bridged' = TRUE
    /\ UNCHANGED <<pipeline, call, racing, synced, now, steps, ordersvars, files, bronze, silver, wapvars>>

\* bronze/files/ changes between runs: an object is put or replaced
PutObject ==
    /\ pipeline = "file_registry"
    /\ pc = "idle"
    /\ steps < MaxSteps
    /\ \E path \in BronzePaths, size \in ObjectSizes :
          /\ Get(bucket, path, 0) # size
          /\ bucket' = [k \in DOMAIN bucket \cup {path} |-> IF k = path THEN size ELSE bucket[k]]
    /\ steps' = steps + 1
    /\ UNCHANGED <<pipeline, call, racing, synced, now, ordersvars, hdf5vars, file_registry, branch, ref, pc, wap,
                   run, prior, last, bridged>>

\* inventory_files.main as written: the scan, then simple_append on main
InventoryRun ==
    /\ pipeline = "file_registry"
    /\ pc = "idle"
    /\ steps < MaxSteps
    /\ steps' = steps + 1
    /\ LET df_files == scan_bronze_files(bucket, now)
       IN /\ file_registry' = IF df_files.ok THEN simple_append(file_registry, df_files.df)
                              ELSE file_registry
          /\ last' = Finished(Outcome("inventory_files", 0, "none", NoRows, file_registry,
                                      df_files.df,
                                      IF df_files.ok THEN "success" ELSE "nothing to do"),
                              bucket, FALSE)
          /\ run' = [by |-> "simple_append", main0 |-> file_registry, listing |-> bucket,
                     df |-> df_files.df, done |-> <<>>, ended |-> "returned", at |-> "idle"]
    /\ prior' = run
    /\ UNCHANGED <<pipeline, call, racing, synced, now, ordersvars, hdf5vars, bucket, branch, ref, pc, wap, bridged>>

\* inventory_files.main with use_write_audit_publish in place of simple_append
\* (line 179), up to the call: a new Spark session, on main, and the scan
WapStart ==
    /\ pipeline = "file_registry"
    /\ pc = "idle"
    /\ steps < MaxSteps
    /\ steps' = steps + 1
    /\ LET df_files == scan_bronze_files(bucket, now)
       IN /\ df_files.ok
          /\ run' = [by |-> "use_write_audit_publish", main0 |-> file_registry,
                     listing |-> bucket, df |-> NoRows, done |-> <<>>, ended |-> "running",
                     at |-> "create"]
    /\ prior' = run
    /\ ref' = "main"
    /\ pc' = "create"
    /\ wap' = "NO_BRANCH"
    /\ UNCHANGED <<pipeline, call, racing, synced, now, ordersvars, hdf5vars, bucket, file_registry, branch, last,
                   bridged>>

\* the statement at pc has completed
Completed(statement, next, appended) ==
    /\ pc' = next
    /\ wap' = StateAfter(wap, statement)
    /\ run' = [run EXCEPT !.done = Append(@, statement), !.at = next, !.df = appended,
                          !.ended = IF next = "idle" THEN "returned" ELSE @]

WapCreateBranch ==
    /\ pc = "create"
    /\ branch' = CreateBranchIfNotExists(branch, file_registry)
    /\ Completed("create", "switch", run.df)
    /\ UNCHANGED <<pipeline, call, racing, synced, now, steps, ordersvars, hdf5vars, bucket, file_registry, ref,
                   prior, last, bridged>>

WapSwitch ==
    /\ pc = "switch"
    /\ ref' = "ingest_files"
    /\ Completed("switch", "append", run.df)
    /\ UNCHANGED <<pipeline, call, racing, synced, now, steps, ordersvars, hdf5vars, bucket, file_registry, branch,
                   prior, last, bridged>>

WapAppend ==
    /\ pc = "append"
    /\ LET df_files == scan_bronze_files(run.listing, now).df
       IN /\ IF WriteTarget(ref) = "main"
             THEN /\ file_registry' = simple_append(file_registry, df_files)
                  /\ branch' = branch
             ELSE /\ branch' = [branch EXCEPT !.rows = simple_append(@, df_files)]
                  /\ file_registry' = file_registry
          /\ Completed("append", "back", df_files)
    /\ UNCHANGED <<pipeline, call, racing, synced, now, steps, ordersvars, hdf5vars, bucket, ref, prior, last,
                   bridged>>

WapSwitchBack ==
    /\ pc = "back"
    /\ ref' = "main"
    /\ Completed("back", "merge", run.df)
    /\ UNCHANGED <<pipeline, call, racing, synced, now, steps, ordersvars, hdf5vars, bucket, file_registry, branch,
                   prior, last, bridged>>

WapMerge ==
    /\ pc = "merge"
    /\ ~MergeConflict(branch, file_registry)
    /\ file_registry' = branch.rows
    /\ branch' = [branch EXCEPT !.base = branch.rows]
    /\ Completed("merge", "drop", run.df)
    /\ UNCHANGED <<pipeline, call, racing, synced, now, steps, ordersvars, hdf5vars, bucket, ref, prior, last,
                   bridged>>

WapDrop ==
    /\ pc = "drop"
    /\ branch' = DropBranch(branch)
    /\ Completed("drop", "idle", run.df)
    /\ last' = Finished(Outcome("inventory_files", 0, "none", NoRows, run.main0, run.df,
                                "success"), bucket, FALSE)
    /\ UNCHANGED <<pipeline, call, racing, synced, now, steps, ordersvars, hdf5vars, bucket, file_registry, ref,
                   prior, bridged>>

\* The statement at pc raises (the catalog or the object store cannot be
\* reached, or the branch merge is refused) and changes nothing; the exception
\* leaves the function and ends the script with status 1.
WapRaise ==
    /\ pc \in {"create", "switch", "append", "back", "merge", "drop"}
    /\ pc' = "idle"
    /\ wap' = "FAILED"
    /\ branch' = Unwind(branch)
    /\ run' = [run EXCEPT !.ended = "raised"]
    /\ last' = Finished(Outcome("inventory_files", 1, "none", NoRows, run.main0, run.df,
                                "hard failure"), bucket, FALSE)
    /\ UNCHANGED <<pipeline, call, racing, synced, now, steps, ordersvars, hdf5vars, bucket, file_registry, ref,
                   prior, bridged>>

\* The process is killed between two statements.
WapKill ==
    /\ pc \in {"create", "switch", "append", "back", "merge", "drop"}
    /\ pc' = "idle"
    /\ run' = [run EXCEPT !.ended = "killed"]
    /\ UNCHANGED <<pipeline, call, racing, synced, now, steps, ordersvars, hdf5vars, bucket, file_registry, branch,
                   ref, wap, prior, last, bridged>>

Next ==
    \/ Tick
    \/ PutDoc
    \/ DeleteDoc
    \/ SyncRun
    \/ BridgeRavendb
    \/ PutFile
    \/ DeleteFile
    \/ IngestRun
    \/ BridgeHdf5
    \/ PutObject
    \/ InventoryRun
    \/ WapStart
    \/ WapCreateBranch
    \/ WapSwitch
    \/ WapAppend
    \/ WapSwitchBack
    \/ WapMerge
    \/ WapDrop
    \/ WapRaise
    \/ WapKill

Spec == Init /\ [][Next]_vars

---------------------------------------------------------------------------
(* The functions called on their own, on any argument of their type *)

\* dict d with the keys in S only
Restrict(d, S) == [f \in S \cap DOMAIN d |-> d[f]]

\* an order document with every field, each holding any kind of value
FullOrderDocs ==
    [CustomerId : {"customers/1"},
     Status : {"Shipped"},
     ShipTo : {Null, [City |-> "Boston", Country |-> "USA"]},
     Lines : {Null, List(<<>>),
              List(<< [Product |-> "p1", Price |-> Num(12995), Quantity |-> Num(2)] >>),
              List(<< [Product |-> "p1", Price |-> Num(12995), Quantity |-> Num(1)],
                      [Product |-> "p2", Quantity |-> Num(3)] >>),
              List(<< [Product |-> "p1", Price |-> [str |-> "12.99"], Quantity |-> Num(2)] >>),
              List(<< [Product |-> "p1", Price |-> Num(12995), Quantity |-> Null] >>)},
     TotalAmount : {Null, Num(0), Num(25990), Num(12345), [str |-> "n/a"]},
     OrderDate : {isoformat([day |-> 1, ms |-> 0, us |-> 0]), [str |-> "yesterday"],
                  Null, Num(20240101)}]

OrderFields == {"CustomerId", "Status", "ShipTo", "Lines", "TotalAmount", "OrderDate"}

\* ... and with any of the fields absent
AnyOrderDocs == {Restrict(doc, present) : doc \in FullOrderDocs, present \in SUBSET OrderFields}

\* a metadata record with every field, and with any of them absent
FullRecord ==
    Updated(extract_hdf5_metadata(PathOrder[1], [size |-> 2048, readable |-> TRUE,
                                                 title |-> "reflectivity"], 0),
            [extraction_error |-> "truncated file",
             s3_uri |-> S3Uri(BronzeKey(PathOrder[1]))])

AnyRecords == {Restrict(FullRecord, present) : present \in SUBSET DOMAIN FullRecord}

\* the rows handed to write_parquet_to_minio: flattened orders, and the same
\* with a column missing
WellFormedRows ==
    {flatten_order(doc, IdOrder[1], 0) : doc \in OrderDocs}

AnyRows ==
    WellFormedRows
    \cup {Restrict(row, DOMAIN row \ {c}) : row \in WellFormedRows, c \in {"ShipCountry"}}

\* the landing zone before the call: empty, holding another partition, or
\* holding this partition already
AnyStores ==
    {<<>>} \cup {[k \in {d} |-> ParquetRows(<<row>>)] : d \in OrderDays, row \in WellFormedRows}

\* What a probe of the service does: it answers; the connection is refused
\* (botocore's EndpointConnectionError, urllib's URLError); or the connection
\* is made and then reset before the response, which urlopen raises as it is
\* (ConnectionResetError, http.client.RemoteDisconnected: no URLError).
ProbeOutcomes == {"ready", "refused", "reset"}

\* wait_for_minio: except Exception.  wait_for_ravendb: except (URLError,
\* HTTPError).
Caught(fn, outcome) ==
    \/ fn = "wait_for_minio" /\ outcome \in {"refused", "reset"}
    \/ fn = "wait_for_ravendb" /\ outcome = "refused"

WaitFunctions == {"wait_for_minio", "wait_for_ravendb"}

CallArgs ==
    {[fn |-> "flatten_order", doc |-> doc, done |-> FALSE] : doc \in AnyOrderDocs}
    \cup {[fn |-> "metadata_to_dataframe", record |-> r, done |-> FALSE] : r \in AnyRecords}
    \cup {[fn |-> "process_files", fs |-> fs, upload_hdf5 |-> u, done |-> FALSE] :
             fs \in Contents(HdfPaths, AnyHdfFiles), u \in BOOLEAN}
    \cup {[fn |-> "merge_into_iceberg", df_source |-> [x \in {r} |-> 1], done |-> FALSE] :
             r \in AnyRecords}
    \cup {[fn |-> "write_parquet_to_minio", before |-> store, store |-> store,
           orders |-> rows, date_partition |-> d, calls |-> 0, once |-> store,
           done |-> FALSE] :
             store \in AnyStores, d \in OrderDays,
             rows \in {<<r>> : r \in AnyRows} \cup {<<a, b>> : a, b \in WellFormedRows}}
    \cup {[fn |-> fn, max_retries |-> n, i |-> 0, probes |-> <<>>, result |-> "running",
           done |-> FALSE] :
             fn \in WaitFunctions, n \in 0..MaxRetries}

CallInit ==
    /\ pipeline = "none"
    /\ now = 0
    /\ steps = 0
    /\ docs = <<>>
    /\ landing = <<>>
    /\ orders = NoRows
    /\ files = <<>>
    /\ bucket = <<>>
    /\ file_registry = NoRows
    /\ branch = NoBranch
    /\ ref = "main"
    /\ pc = "idle"
    /\ wap = "NO_BRANCH"
    /\ run = NoRun
    /\ prior = NoRun
    /\ bronze = <<>>
    /\ silver = <<>>
    /\ hdf5_catalog = NoRows
    /\ synced = NoSync
    /\ call \in CallArgs
    /\ racing = NoRace
    /\ last = Finished(Idle, <<>>, FALSE)
    /\ bridged = FALSE

othervars == <<pipeline, now, steps, ordersvars, hdf5vars, wapvars, synced, racing, last,
               bridged>>

CallFlattenOrder ==
    /\ call.fn = "flatten_order"
    /\ ~call.done
    /\ call' = [fn |-> call.fn, doc |-> call.doc, done |-> TRUE,
                raised |-> flatten_raises(call.doc),
                row |-> IF flatten_raises(call.doc) THEN <<>>
                        ELSE flatten_order(call.doc, IdOrder[1], now)]
    /\ UNCHANGED othervars

CallMetadataToDataframe ==
    /\ call.fn = "metadata_to_dataframe"
    /\ ~call.done
    /\ call' = [fn |-> call.fn, record |-> call.record, done |-> TRUE,
                row |-> metadata_to_dataframe(call.record)]
    /\ UNCHANGED othervars

CallProcessFiles ==
    /\ call.fn = "process_files"
    /\ ~call.done
    /\ call' = [fn |-> call.fn, fs |-> call.fs, upload_hdf5 |-> call.upload_hdf5,
                done |-> TRUE, rows |-> process_files(call.fs, call.upload_hdf5, now)]
    /\ UNCHANGED othervars

\* merge_into_iceberg up to the view hdf5_source
CallMergeIntoIceberg ==
    /\ call.fn = "merge_into_iceberg"
    /\ ~call.done
    /\ call' = [fn |-> call.fn, df_source |-> call.df_source, done |-> TRUE,
                hdf5_source |-> Prepared(call.df_source, now)]
    /\ UNCHANGED othervars

\* write_parquet_to_minio, called once and then once more with the same
\* arguments
CallWriteParquetToMinio ==
    /\ call.fn = "write_parquet_to_minio"
    /\ call.calls < 2
    /\ LET written == write_parquet_to_minio(call.store, call.orders, call.date_partition)
       IN call' = [call EXCEPT !.store = written, !.calls = @ + 1,
                               !.once = IF call.calls = 0 THEN written ELSE @,
                               !.done = TRUE]
    /\ UNCHANGED othervars

\* one pass of the for loop of wait_for_minio / wait_for_ravendb: the probe,
\* and return True, or the except clause and the sleep, or the exception
\* leaving the function
CallWaitProbe ==
    /\ call.fn \in WaitFunctions
    /\ call.result = "running"
    /\ call.i < call.max_retries
    /\ \E outcome \in ProbeOutcomes :
          call' = [call EXCEPT !.probes = Append(@, outcome),
                               !.i = IF Caught(call.fn, outcome) THEN @ + 1 ELSE @,
                               !.result = IF outcome = "ready" THEN "returned"
                                          ELSE IF Caught(call.fn, outcome) THEN "running"
                                          ELSE "raised",
                               !.done = outcome = "ready" \/ ~Caught(call.fn, outcome)]
    /\ UNCHANGED othervars

\* the loop is over: raise Exception("... did not become ready in time")
CallWaitGivesUp ==
    /\ call.fn \in WaitFunctions
    /\ call.result = "running"
    /\ call.i = call.max_retries
    /\ call' = [call EXCEPT !.result = "gave up", !.done = TRUE]
    /\ UNCHANGED othervars

CallNext ==
    \/ CallFlattenOrder
    \/ CallMetadataToDataframe
    \/ CallProcessFiles
    \/ CallMergeIntoIceberg
    \/ CallWriteParquetToMinio
    \/ CallWaitProbe
    \/ CallWaitGivesUp

CallSpec == CallInit /\ [][CallNext]_vars

---------------------------------------------------------------------------
(* ravendb_sync and bridge_ravendb over a collection of up to three orders, *)
(* with order dates of every kind                                           *)

SyncIds == {IdOrder[i] : i \in DOMAIN IdOrder}

\* a shipped order, its OrderDate replaced
Dated(date) == [OrderDoc(1, "Shipped") EXCEPT !.OrderDate = date]

\* Orders of the same day at different times, of another day, without an
\* OrderDate, with one that is no ISO date, with null for one; and an order
\* whose ShipTo is null.
SyncDocs ==
    {Dated(isoformat([day |-> 1, ms |-> 0, us |-> 0])),
     Dated(isoformat([day |-> 1, ms |-> 1, us |-> 0])),
     Dated(isoformat([day |-> 2, ms |-> 0, us |-> 0])),
     Restrict(OrderDoc(1, "Shipped"), DOMAIN OrderDoc(1, "Shipped") \ {"OrderDate"}),
     Dated([str |-> "yesterday"]),
     Dated(Null),
     [OrderDoc(1, "Shipped") EXCEPT !.ShipTo = Null]}

\* the third order, when there is one, is of the later day
LaterOrder == Dated(isoformat([day |-> 2, ms |-> 0, us |-> 0]))

SyncInit ==
    /\ pipeline = "orders"
    /\ now = 0
    /\ steps = 0
    /\ docs \in Contents(SyncIds, SyncDocs)
    /\ IdOrder[3] \in DOMAIN docs => docs[IdOrder[3]] = LaterOrder
    /\ landing = <<>>
    /\ orders = NoRows
    /\ files = <<>>
    /\ bucket = <<>>
    /\ file_registry = NoRows
    /\ branch = NoBranch
    /\ ref = "main"
    /\ pc = "idle"
    /\ wap = "NO_BRANCH"
    /\ run = NoRun
    /\ prior = NoRun
    /\ bronze = <<>>
    /\ silver = <<>>
    /\ hdf5_catalog = NoRows
    /\ synced = NoSync
    /\ call = NoCall
    /\ racing = NoRace
    /\ last = Finished(Idle, <<>>, FALSE)
    /\ bridged = FALSE

SyncNext ==
    \/ Tick
    \/ SyncRun
    \/ BridgeRavendb

SyncSpec == SyncInit /\ [][SyncNext]_vars

---------------------------------------------------------------------------
(* Two ravendb_sync runs at once.  Each run reads the collection in one     *)
(* query and then puts its partitions one by one; the steps of the two runs *)
(* interleave in any order, and the collection may change and the clock     *)
(* advance between them.  A put_object replaces the object in one step: the *)
(* body is a buffer complete in memory, sent in one request.                *)

RaceInit ==
    /\ pipeline = "orders"
    /\ now = 0
    /\ steps = 0
    /\ docs \in [OrderIds -> OrderDocs]
    /\ landing = <<>>
    /\ orders = NoRows
    /\ files = <<>>
    /\ bucket = <<>>
    /\ file_registry = NoRows
    /\ branch = NoBranch
    /\ ref = "main"
    /\ pc = "idle"
    /\ wap = "NO_BRANCH"
    /\ run = NoRun
    /\ prior = NoRun
    /\ bronze = <<>>
    /\ silver = <<>>
    /\ hdf5_catalog = NoRows
    /\ synced = NoSync
    /\ call = NoCall
    /\ racing = NoRace
    /\ last = Finished(Idle, <<>>, FALSE)
    /\ bridged = FALSE

racevars == <<pipeline, now, steps, docs, orders, hdf5vars, wapvars, synced, call, last,
              bridged>>

\* main up to the write loop: fetch_all_orders and group_by_date
RaceFetch ==
    \E r \in RaceRuns :
        /\ racing.runs[r].pc = "fetch"
        /\ LET fetched == fetch_all_orders(docs, now)
           IN racing' = [racing EXCEPT !.runs[r] =
                            [pc |-> "write", orders |-> fetched,
                             grouped |-> group_by_date(fetched), written |-> 0]]
        /\ UNCHANGED <<racevars, landing>>

\* one pass of the write loop of main
RacePut ==
    \E r \in RaceRuns :
        LET this == racing.runs[r]
            date_partition == this.grouped.keys[this.written + 1]
        IN /\ this.pc = "write"
           /\ this.written < Len(this.grouped.keys)
           /\ landing' = write_parquet_to_minio(landing, this.grouped.rows[date_partition],
                                                date_partition)
           /\ racing' = [runs |-> [racing.runs EXCEPT ![r].written = @ + 1],
                         writer |-> [k \in DOMAIN racing.writer \cup {date_partition} |->
                                       IF k = date_partition THEN r ELSE racing.writer[k]]]
           /\ UNCHANGED racevars

\* the write loop is over: the summary, and the script ends
RaceEnd ==
    \E r \in RaceRuns :
        /\ racing.runs[r].pc = "write"
        /\ racing.runs[r].written = Len(racing.runs[r].grouped.keys)
        /\ racing' = [racing EXCEPT !.runs[r].pc = "done"]
        /\ UNCHANGED <<racevars, landing>>

\* one run has read the collection, the other has not: what happens to the
\* source and the clock before the first read or after the second makes no
\* difference to what the runs write
BetweenReads ==
    /\ \E r \in RaceRuns : racing.runs[r].pc = "fetch"
    /\ \E r \in RaceRuns : racing.runs[r].pc # "fetch"

RaceTick == BetweenReads /\ Tick

RaceChange == BetweenReads /\ PutDoc

RaceNext ==
    \/ RaceTick
    \/ RaceChange
    \/ RaceFetch
    \/ RacePut
    \/ RaceEnd

RaceSpec == RaceInit /\ [][RaceNext]_vars

---------------------------------------------------------------------------
(* The bridges: C1 - C5 *)

BridgeRan == last.entry \in {"bridge_ravendb", "bridge_hdf5"}

\* the Warehouse Table of the followed dataset and its natural key
Table == IF pipeline = "orders" THEN orders ELSE hdf5_catalog

KeyCol == IF pipeline = "orders" THEN "OrderId" ELSE "file_path"

\* the last run was a bridge whose MERGE went through, over a table and a
\* batch that each had one row per key
MergedUnique ==
    /\ BridgeRan
    /\ last.merge = "done"
    /\ UniqueKeys(last.before, KeyCol)
    /\ UniqueKeys(last.source, KeyCol)

\* C1: after a MERGE of a batch with unique keys into a table with unique keys,
\* the table holds exactly one row per key of target and source together; a
\* key of the source carries the source row's value in every other column; a
\* key of the target alone keeps its row.
C1_UpsertCorrect ==
    MergedUnique =>
        /\ KeysOf(Table, KeyCol) = KeysOf(last.before, KeyCol) \cup KeysOf(last.source, KeyCol)
        /\ UniqueKeys(Table, KeyCol)
        /\ \A s \in DOMAIN last.source :
              \E r \in DOMAIN Table :
                  /\ r[KeyCol] = s[KeyCol]
                  /\ \A c \in DOMAIN s \ {KeyCol} : r[c] = s[c]
        /\ \A t \in DOMAIN last.before :
              t[KeyCol] \notin KeysOf(last.source, KeyCol) => t \in DOMAIN Table

\* the spec's example: a key whose row the batch changes, and a new key
C1_Witness ==
    /\ MergedUnique
    /\ \E t \in DOMAIN last.before, s \in DOMAIN last.source :
          t[KeyCol] = s[KeyCol] /\ t # s
    /\ \E s \in DOMAIN last.source : s[KeyCol] \notin KeysOf(last.before, KeyCol)

\* a key of the target alone is reached too
C1_TargetOnlyKey ==
    /\ MergedUnique
    /\ \E t \in DOMAIN last.before : t[KeyCol] \notin KeysOf(last.source, KeyCol)
    /\ last.source # NoRows

\* C2: no two rows of a Warehouse Table share the natural key.
C2_NaturalKeyUnique ==
    /\ UniqueKeys(orders, "OrderId")
    /\ UniqueKeys(hdf5_catalog, "file_path")

\* a table without its column cataloged_at
WithoutCatalogedAt(b) ==
    LET strip(r) == [c \in DOMAIN r \ {"cataloged_at"} |-> r[c]]
    IN [x \in {strip(r) : r \in DOMAIN b} |-> Sum(b, {r \in DOMAIN b : strip(r) = x})]

\* the last run was a bridge, and so was the run that last read the landing
\* data, which has not been written since
MergedTwice == BridgeRan /\ last.repeat

\* C3, as claimed: the second of two bridge runs over the same landing data
\* leaves the table as the first left it, in every row and every column.
C3_SecondMergeIdentical == MergedTwice => Table = last.before

\* C3, amended: ... in every row, and in every column but cataloged_at.
C3_SecondMergeIdenticalButCatalogedAt ==
    MergedTwice => WithoutCatalogedAt(Table) = WithoutCatalogedAt(last.before)

C3_Witness ==
    /\ MergedTwice
    /\ last.merge = "done"
    /\ pipeline = "hdf5_catalog"
    /\ Table # last.before

\* C4: a bridge run that finds the landing zone empty issues no MERGE and
\* leaves the rows of the table as they were.
C4_EmptyLandingNoMerge ==
    (BridgeRan /\ last.empty) => (last.merge = "none" /\ Table = last.before)

C4_Witness == BridgeRan /\ last.empty /\ steps > 0

\* C5: a bridge run that finds the landing zone empty ends with a non-zero
\* exit status.
C5_EmptyLandingExitsNonZero == (BridgeRan /\ last.empty) => last.exit # 0


Done(r) == {r.done[i] : i \in DOMAIN r.done}

WapRun == run.by = "use_write_audit_publish"

\* C6: in a write-audit-publish run, once the branch has been created and as
\* long as MERGE BRANCH has not succeeded, branch ingest_files exists: in every
\* state of the run and after it has ended by a failure of the reference
\* switch, the append or the merge.
C6_BranchKeptUntilMerged ==
    (WapRun /\ "create" \in Done(run) /\ "merge" \notin Done(run)) => branch.exists

C6_Witness ==
    /\ WapRun
    /\ run.ended = "raised"
    /\ run.at = "merge"
    /\ "append" \in Done(run)
    /\ branch.exists

\* C7: while MERGE BRANCH has not succeeded in a write-audit-publish run,
\* file_registry on main is what it was when the run started; and the run that
\* follows one interrupted after the append and before the merge finds the
\* branch present and main as it was before the interrupted run.
InterruptedWritten(r) ==
    /\ r.by = "use_write_audit_publish"
    /\ r.ended \in {"killed", "raised"}
    /\ "append" \in Done(r)
    /\ "merge" \notin Done(r)

C7_MainUntouchedBeforeMerge ==
    /\ (WapRun /\ "merge" \notin Done(run)) => file_registry = run.main0
    /\ (pc = "create" /\ InterruptedWritten(prior)) =>
          (branch.exists /\ file_registry = prior.main0)

C7_Witness ==
    /\ pc = "create"
    /\ InterruptedWritten(prior)
    /\ prior.ended = "killed"
    /\ branch.rows # file_registry

\* a new run begins: the only way out of the state a run ended in
NewRun == pc = "idle" /\ pc' = "create" /\ wap' = "NO_BRANCH"

RunEnded == WapRun /\ run.ended \in {"returned", "raised", "killed"}

\* C9: no write-audit-publish run whose MERGE BRANCH succeeded ends with branch
\* ingest_files still existing.
C9_MergedRunEndsWithoutBranch ==
    (RunEnded /\ "merge" \in Done(run)) => ~branch.exists

\* C9 as the code has it: a run that returns has created the branch, appended
\* to it, merged it and dropped it, in that order, and the branch is gone; a
\* run whose merge succeeded and which did not return (DROP BRANCH raised, or
\* the process was killed before it) ends with the branch still there.
C9_ReturnedRunEndsWithoutBranch ==
    /\ (WapRun /\ run.ended = "returned") =>
          /\ run.done = Statements
          /\ ~branch.exists
          /\ wap = "MERGED"
    /\ (RunEnded /\ "merge" \in Done(run) /\ run.ended # "returned") => branch.exists

C9_Witness ==
    /\ WapRun
    /\ run.ended = "returned"
    /\ file_registry = BagSum(run.main0, run.df)
    /\ prior.by = "use_write_audit_publish"

\* C10: when use_write_audit_publish is about to append, file_registry on
\* branch ingest_files equals file_registry on main at the start of the run;
\* and after the merge main holds what it held at the start plus the rows of
\* this run, nothing else.
C10_BranchLevelWithMain ==
    /\ (WapRun /\ pc = "append") => branch.rows = run.main0
    /\ (WapRun /\ "merge" \in Done(run)) => file_registry = BagSum(run.main0, run.df)



\* C11: every change of a warehouse table on main is made by the merge
\* executor: orders and hdf5_catalog change only in a bridge run's MERGE,
\* file_registry only when branch ingest_files is merged into main.
C11_MutationsThroughExecutor ==
    [][ /\ orders' # orders =>
              (last'.entry = "bridge_ravendb" /\ last'.merge = "done")
        /\ hdf5_catalog' # hdf5_catalog =>
              (last'.entry = "bridge_hdf5" /\ last'.merge = "done")
        /\ file_registry' # file_registry =>
              (pc = "merge" /\ pc' = "drop" /\ file_registry' = branch.rows) ]_vars



FlattenReturned == call.fn = "flatten_order" /\ call.done /\ ~call.raised

\* C12: a target field the record lacks is in the row, and null there:
\* CustomerId, Status, ShipCity and ShipCountry, LineCount and TotalAmount of
\* a flattened order whose document lacks CustomerId, Status, ShipTo, Lines,
\* and TotalAmount with Lines; every schema field a metadata record lacks.
C12_MissingFieldsNull ==
    /\ FlattenReturned =>
          /\ "CustomerId" \notin DOMAIN call.doc => call.row.CustomerId = NullStr
          /\ "Status" \notin DOMAIN call.doc => call.row.Status = NullStr
          /\ "ShipTo" \notin DOMAIN call.doc =>
                (call.row.ShipCity = NullStr /\ call.row.ShipCountry = NullStr)
          /\ "Lines" \notin DOMAIN call.doc => call.row.LineCount \notin Int
          /\ {"TotalAmount", "Lines"} \cap DOMAIN call.doc = {} =>
                call.row.TotalAmount \notin Int
    /\ (call.fn = "metadata_to_dataframe" /\ call.done) =>
          \A f \in schema_fields \ DOMAIN call.record :
              f \in DOMAIN call.row /\ call.row[f] = NullStr

\* the columns of table orders
OrdersColumns ==
    {"OrderId", "CustomerId", "OrderDate", "TotalAmount", "Status", "ShipCity",
     "ShipCountry", "LineCount", "SyncedAt"}

\* C13: the rows for one table have one column set: a flattened order has the
\* nine columns of orders whatever its document lacks, the records of one
\* process_files run have the same keys, and the batch of the hdf5_catalog
\* MERGE has exactly the expected columns whatever columns the source has.
C13_SameColumnSet ==
    /\ FlattenReturned => DOMAIN call.row = OrdersColumns
    /\ (call.fn = "metadata_to_dataframe" /\ call.done) =>
          DOMAIN call.row = schema_fields \cup DOMAIN call.record
    /\ (call.fn = "process_files" /\ call.done) =>
          \A i, j \in DOMAIN call.rows : DOMAIN call.rows[i] = DOMAIN call.rows[j]
    /\ (call.fn = "merge_into_iceberg" /\ call.done) =>
          \A r \in DOMAIN call.hdf5_source : DOMAIN r = expected_columns

C13_Witness ==
    /\ call.fn = "merge_into_iceberg"
    /\ call.done
    /\ \E r \in DOMAIN call.df_source :
          /\ "title" \notin DOMAIN r
          /\ "ingestion_time" \notin DOMAIN r
          /\ "file_path" \in DOMAIN r
    /\ call.hdf5_source # NoRows

\* C17: write_parquet_to_minio called twice with the same rows and partition
\* leaves what one call leaves: one object at the partition's key holding the
\* rows once, and every other object as it was.
C17_WriteTwiceIsWriteOnce ==
    (call.fn = "write_parquet_to_minio" /\ call.calls = 2) =>
        /\ call.store = call.once
        /\ DOMAIN call.store = DOMAIN call.before \cup {call.date_partition}
        /\ call.store[call.date_partition] = ParquetRows(call.orders)
        /\ Len(call.store[call.date_partition]) = Len(call.orders)
        /\ \A k \in DOMAIN call.before \ {call.date_partition} :
              call.store[k] = call.before[k]

C17_Witness ==
    /\ call.fn = "write_parquet_to_minio"
    /\ call.calls = 2
    /\ call.date_partition \in DOMAIN call.before
    /\ call.before[call.date_partition] # ParquetRows(call.orders)
    /\ Len(call.orders) = 2

\* C18: when a row handed to the landing writer has a column set other than
\* the one declared for the table, the writer raises and writes no object.
C18_SchemaMismatchRaises ==
    (/\ call.fn = "write_parquet_to_minio"
     /\ call.calls > 0
     /\ \E i \in DOMAIN call.orders : DOMAIN call.orders[i] # OrdersColumns)
    => call.store = call.before

\* C20: flatten_order returns a row for every document, whatever its fields
\* hold.
C20_FlattenNeverAborts ==
    (call.fn = "flatten_order" /\ call.done) =>
        (~call.raised /\ DOMAIN call.row = OrdersColumns)

---------------------------------------------------------------------------
(* The sync run: C14 - C16, C19 *)

\* a sync run got to its write loop
Grouped == synced.orders # <<>> /\ synced.raised \in {"none", "write_parquet_to_minio"}

\* the calendar day of an order
Day(order) == order.OrderDate.day

\* the positions of an order in the partitions: <<key, index>>
Places(order) ==
    {<<k, j>> \in (DOMAIN synced.grouped.rows) \X (1..Len(synced.orders)) :
        /\ j \in DOMAIN synced.grouped.rows[k]
        /\ synced.grouped.rows[k][j] = order}

OnDay(d) == SelectSeq(synced.orders, LAMBDA order : Day(order) = d)

\* C14: group_by_date gives two orders the same key exactly when their
\* OrderDate is on the same calendar day, puts every order in exactly one
\* partition exactly once, and keeps the input order within a partition.
C14_GroupByDatePartitions ==
    Grouped =>
        /\ \A i \in DOMAIN synced.orders : Cardinality(Places(synced.orders[i])) = 1
        /\ \A i, j \in DOMAIN synced.orders :
              (\E k \in DOMAIN synced.grouped.rows, a, b \in DOMAIN synced.orders :
                  /\ <<k, a>> \in Places(synced.orders[i])
                  /\ <<k, b>> \in Places(synced.orders[j]))
              <=> Day(synced.orders[i]) = Day(synced.orders[j])
        /\ \A k \in DOMAIN synced.grouped.rows : synced.grouped.rows[k] = OnDay(k)

\* three orders, two of them on one day at different times
C14_Witness ==
    /\ Grouped
    /\ Len(synced.orders) = 3
    /\ Len(synced.grouped.keys) = 2
    /\ \E k \in DOMAIN synced.grouped.rows :
          /\ Len(synced.grouped.rows[k]) = 2
          /\ synced.grouped.rows[k][1].OrderDate # synced.grouped.rows[k][2].OrderDate

\* the order documents whose OrderDate is absent, no ISO date, or no string
NoIsoDate(doc) == "OrderDate" \notin DOMAIN doc \/ ~IsIso(doc.OrderDate)

\* the rows of the landing zone that carry order id, by partition
LandedAt(id) ==
    {<<k, j>> \in (DOMAIN landing) \X (1..Cardinality(DOMAIN docs)) :
        j \in DOMAIN landing[k] /\ landing[k][j].OrderId = id}

\* C15: an order whose OrderDate is absent, unparseable or no string ends in
\* exactly one partition, under the key of the processing time; the run is
\* not aborted by it.
C15_UndatedOrdersLand ==
    (/\ last.entry = "ravendb_sync"
     /\ synced.raised \notin {"fetch_all_orders", "write_parquet_to_minio"}
     /\ \A id \in DOMAIN docs : ~flatten_raises(docs[id]))
    => /\ synced.raised = "none"
       /\ \A id \in DOMAIN docs :
             NoIsoDate(docs[id]) =>
                /\ Cardinality(LandedAt(id)) = 1
                /\ \A place \in LandedAt(id) : place[1] = DateKey(Now(now))

\* the partition keys of the latest run
Keys == {Day(synced.orders[i]) : i \in DOMAIN synced.orders}

\* a step that is a completed sync run over a collection that is not empty
SyncCompletes ==
    /\ steps' = steps + 1
    /\ synced'.raised = "none"
    /\ synced'.orders # <<>>

\* C16: a completed sync run writes one object per distinct partition key,
\* holding the rows of that partition and no other, and leaves every other
\* object alone; when the landing zone holds the objects of that run only, the
\* bridge run into an empty orders table gives one row per order, each with
\* its OrderId.
C16_OneObjectPerPartition ==
    /\ [][SyncCompletes =>
            LET fetched == synced'.orders
                keys == {Day(fetched[i]) : i \in DOMAIN fetched}
            IN /\ DOMAIN landing' = DOMAIN landing \cup keys
               /\ \A k \in keys :
                     landing'[k] =
                        ParquetRows(SelectSeq(fetched, LAMBDA order : Day(order) = k))
               /\ \A k \in DOMAIN landing \ keys : landing'[k] = landing[k]]_vars
    /\ []((/\ last.entry = "bridge_ravendb"
           /\ last.before = NoRows
           /\ synced.raised = "none"
           /\ DOMAIN landing = Keys)
          => /\ BagSize(orders) = Len(synced.orders)
             /\ {r.OrderId : r \in DOMAIN orders}
                   = {synced.orders[i].OrderId : i \in DOMAIN synced.orders}
             /\ NullStr \notin {r.OrderId : r \in DOMAIN orders})

\* orders dated day 1, day 1 and day 2: two objects, of two rows and of one,
\* and three rows in orders after the bridge run
C16_Witness ==
    /\ last.entry = "bridge_ravendb"
    /\ last.before = NoRows
    /\ synced.raised = "none"
    /\ Len(synced.orders) = 3
    /\ DOMAIN landing = {1, 2}
    /\ Len(landing[1]) = 2
    /\ Len(landing[2]) = 1
    /\ BagSize(orders) = 3

\* C19: when write_parquet_to_minio fails for one partition, the other
\* partitions of the run are written all the same.
C19_WriteFailureConfined ==
    (synced.raised = "write_parquet_to_minio" /\ last.entry = "ravendb_sync") =>
        \A i \in DOMAIN synced.grouped.keys :
            i # synced.written + 1 =>
                LET k == synced.grouped.keys[i]
                IN /\ k \in DOMAIN landing
                   /\ landing[k] = ParquetRows(synced.grouped.rows[k])

---------------------------------------------------------------------------
(* Failures and exit status: C21, C22 *)

\* a step that is a sync run ended by put_object raising
SyncWriteFails ==
    /\ steps' = steps + 1
    /\ synced'.raised = "write_parquet_to_minio"

\* C21: when the object store fails in the write loop of ravendb_sync, the
\* landing zone holds the objects it held before the run, or the objects of
\* the complete run, never the new objects of some of the partitions only.
C21_NoPartialCommit ==
    [][SyncWriteFails =>
          \/ landing' = landing
          \/ landing' = WriteLoop(landing, synced'.grouped,
                                  Len(synced'.grouped.keys))]_vars

\* C22: an entry point ends with different exit status for different
\* outcomes: two runs of it, one after the other, that differ in outcome
\* ("nothing to do", "success", "hard failure") differ in exit status.
C22_ExitStatusTellsOutcome ==
    [][(/\ last.entry # "none"
        /\ last'.entry = last.entry
        /\ last'.kind # last.kind)
       => last'.exit # last.exit]_vars

---------------------------------------------------------------------------
(* Ingestion of HDF5 files: C24, C27 *)

ProcessFilesReturned == call.fn = "process_files" /\ call.done

\* extraction of a file ends without raising
Extracts(file) == file.readable /\ "title" \in DOMAIN file

RowsOf(path) == {i \in DOMAIN call.rows : call.rows[i].file_path = AbsStr(path)}

\* C24: process_files gives one row for each HDF5 file it visits, also when
\* opening or traversing the file raises; the row keeps the file information,
\* has the error text in extraction_error and null in the fields extraction
\* did not reach; extraction_error is null exactly when extraction did not
\* raise.
C24_OneRowPerFile ==
    ProcessFilesReturned =>
        /\ Len(call.rows) = Cardinality(DOMAIN call.fs)
        /\ \A path \in DOMAIN call.fs :
              /\ Cardinality(RowsOf(path)) = 1
              /\ \A i \in RowsOf(path) :
                    LET row == call.rows[i]
                        file == call.fs[path]
                    IN /\ row.file_name = path.name
                       /\ row.file_size_bytes = file.size
                       /\ row.ingestion_time = isoformat(Now(now))
                       /\ row.extraction_error = NullStr <=> Extracts(file)
                       /\ ~file.readable => row.hdf5_driver = NullStr
                       /\ ~Extracts(file) => row.title = NullStr
                       /\ Extracts(file) => row.title = file.title

\* a file that cannot be opened and one that raises while it is traversed
C24_Witness ==
    /\ ProcessFilesReturned
    /\ Len(call.rows) = 2
    /\ \E i, j \in DOMAIN call.rows :
          /\ call.rows[i].extraction_error = "Unable to open file"
          /\ call.rows[j].extraction_error = "Can't read data"
          /\ call.rows[j].hdf5_driver # NullStr

\* C27: with --upload-hdf5 distinct files are stored at distinct keys under
\* bronze/hdf5/: after the run every file of the scan is the content of an
\* object there, none was overwritten by the upload of another file.
C27_DistinctFilesDistinctKeys ==
    [][(steps' = steps + 1 /\ bronze' # bronze) =>
          \A path \in DOMAIN files :
              \E key \in DOMAIN bronze' :
                  bronze'[key] = [path |-> path, file |-> files[path]]]_vars

---------------------------------------------------------------------------
(* The total of an order: C25 *)

\* the document's TotalAmount, when it is a number other than 0
GivenTotal(doc) ==
    "TotalAmount" \in DOMAIN doc /\ IsNum(doc.TotalAmount) /\ doc.TotalAmount.num # 0

\* the sum over the lines of Price * Quantity, a missing one counting as 0;
\* 0 for a document without Lines
SumOfLines(doc) ==
    IF "Lines" \notin DOMAIN doc THEN 0
    ELSE LET items == doc.Lines.items
         IN Sum([i \in DOMAIN items |->
                    Get(items[i], "Price", Num(0)).num
                    * Get(items[i], "Quantity", Num(0)).num],
                DOMAIN items)

\* the total the row is to hold, before rounding
Total(doc) == IF GivenTotal(doc) THEN doc.TotalAmount.num ELSE SumOfLines(doc)

\* C25: TotalAmount of the row is the document's TotalAmount when that is
\* present and not zero, and otherwise the sum over the Lines of
\* Price * Quantity.
C25_TotalAmountAsGiven ==
    FlattenReturned => call.row.TotalAmount = Total(call.doc)

\* C25, amended: ... each rounded to two decimals.
C25_TotalAmountRounded ==
    FlattenReturned => call.row.TotalAmount = Round2(Total(call.doc))

\* a total summed from two lines, one without a Price, that rounding changes
C25_Witness ==
    /\ FlattenReturned
    /\ ~GivenTotal(call.doc)
    /\ "Lines" \in DOMAIN call.doc
    /\ Len(call.doc.Lines.items) = 2
    /\ call.row.TotalAmount # SumOfLines(call.doc)
    /\ call.row.TotalAmount # 0

---------------------------------------------------------------------------
(* The landing zone over several runs: C26 *)

\* the places of an order id in the landing zone store: <<partition, index>>
LandedIn(store, id) ==
    {<<k, j>> \in (DOMAIN store) \X (1..Len(IdOrder)) :
        j \in DOMAIN store[k] /\ store[k][j].OrderId = id}

OneObjectPerOrder(store) ==
    \A id \in SyncIds :
        \A p, q \in LandedIn(store, id) : p = q

\* a step that is a sync run that ended without an exception
SyncReturns ==
    /\ steps' = steps + 1
    /\ docs' = docs
    /\ last'.entry = "ravendb_sync"
    /\ last'.kind \in {"success", "nothing to do"}

\* C26: completed sync runs over a source in which an order's date changes
\* or an order is deleted keep each OrderId in at most one landing object,
\* and only the orders of the source of the latest run.
C26_OneLandingRowPerOrder ==
    [][(SyncReturns /\ OneObjectPerOrder(landing)) =>
          /\ OneObjectPerOrder(landing')
          /\ \A id \in SyncIds :
                LandedIn(landing', id) # {} => id \in DOMAIN docs]_vars

---------------------------------------------------------------------------
(* inventory_files run again, and the session after write-audit-publish:   *)
(* C28, C29                                                                *)

ScannedPaths == KeysOf(scan_bronze_files(bucket, now).df, "file_path")

\* file_registry as a single run over bronze/files/ leaves it
RegisteredOnce(table) ==
    /\ UniqueKeys(table, "file_path")
    /\ KeysOf(table, "file_path") = ScannedPaths

\* a step that is a run of inventory_files.main
InventoryRuns ==
    /\ steps' = steps + 1
    /\ bucket' = bucket
    /\ pc = "idle" /\ pc' = "idle"
    /\ last'.entry = "inventory_files"

\* C28: a second run of inventory_files over the same bronze/files/ leaves
\* file_registry with the file_path values of the first run, each once.
C28_SecondInventoryKeepsOneRowPerFile ==
    [][(InventoryRuns /\ RegisteredOnce(file_registry)) =>
          RegisteredOnce(file_registry')]_vars

\* C29: when use_write_audit_publish has ended, by returning or by raising,
\* spark.sql.catalog.nessie.ref of the session is main.
C29_SessionOnMainAfterRun ==
    (/\ pc = "idle"
     /\ run.by = "use_write_audit_publish"
     /\ run.ended \in {"returned", "raised"})
    => ref = "main"

---------------------------------------------------------------------------
(* Waiting for the services: C30 *)

Failed(probes) == \A i \in DOMAIN probes : probes[i] # "ready"

\* C30: wait_for_minio and wait_for_ravendb make at most max_retries probes;
\* they return at the first probe that succeeds, and raise after max_retries
\* failed probes in a row, not before.
C30_WaitEndsWithinRetries ==
    call.fn \in WaitFunctions =>
        /\ Len(call.probes) <= call.max_retries
        /\ call.result = "returned" <=>
              /\ call.probes # <<>>
              /\ call.probes[Len(call.probes)] = "ready"
        /\ \A i \in DOMAIN call.probes :
              call.probes[i] = "ready" => i = Len(call.probes)
        /\ call.result \in {"raised", "gave up"} =>
              /\ Len(call.probes) = call.max_retries
              /\ Failed(call.probes)

---------------------------------------------------------------------------
(* Two sync runs at the same partition: C23 *)

\* the rows run r has for partition k, as the object it puts
ObjectOf(r, k) == ParquetRows(racing.runs[r].grouped.rows[k])

\* C23: under every interleaving of two sync runs, the landing object at a
\* key is at every moment the complete row set of one run for that key, the
\* run that put it last: no part of a write, no mix of the rows of both.
C23_LastWriterWins ==
    \A k \in DOMAIN landing :
        /\ k \in DOMAIN racing.writer
        /\ k \in DOMAIN racing.runs[racing.writer[k]].grouped.rows
        /\ landing[k] = ObjectOf(racing.writer[k], k)

\* both runs are over, both have put the object of one key, with different
\* rows, the later one fewer than the earlier
C23_Witness ==
    /\ \A r \in RaceRuns : racing.runs[r].pc = "done"
    /\ \E k \in DOMAIN landing :
          /\ \A r \in RaceRuns : k \in DOMAIN racing.runs[r].grouped.rows
          /\ \E r \in RaceRuns :
                /\ racing.writer[k] # r
                /\ Len(ObjectOf(r, k)) > Len(landing[k])

====
